---- MODULE Spec2Model ----
(***************************************************************************)
(* Offline outbox of the chat feature: MessageQueue.swift driven by        *)
(* ChatService.swift and the ChatModule bridge.  Every handler runs to     *)
(* completion on its queue, so one handler is one action; the setValue     *)
(* completion blocks and the asyncAfter closures are separate actions.     *)
(* Time is the value Date() returns, counted in seconds; handlers that run *)
(* at the same value of now read the same instant.                         *)
(***************************************************************************)
EXTENDS Integers, Sequences, FiniteSets, TLC

(* ------------------------------ bounds --------------------------------- *)
MaxMessages == 2
MaxNow == 1
MaxFailures == 5
MaxEvents == 3
MaxTs == 5
MaxLimit == 3
MaxSame == 2
MaxInits == 2
MaxStarts == 2

(* ------------------------- program constants --------------------------- *)
maxRetries == 5
retryDelays == <<1, 2, 4, 8, 16>>
PrefixLen == 8

(* ------------------------------ inputs --------------------------------- *)
LocalIds == 1..MaxMessages
Rooms == {"r1"}
UserIds == { <<1, 2, 3, 4, 5, 6, 7, 8, 9>> }
DisplayNames == {"Ann"}
Listeners == {"A", "B"}
MiniApps == {"shop", "chat", "profile"}
NoCall == [state |-> "idle", room |-> ""]
NoCursor == <<0, <<>>>>
NoResponse == [limit |-> 0, before |-> NoCursor,
               messages |-> <<>>, hasMore |-> FALSE, nextCursor |-> NoCursor]
NoUser == [set |-> FALSE, userId |-> <<>>, displayName |-> ""]
NoMessage == [id |-> <<0, <<>>>>, roomId |-> "", uid |-> <<>>, displayName |-> "", timestamp |-> 0]

VARIABLES
  queue,          \* MessageQueue.queue : localId -> QueuedMessage
  store,          \* UserDefaults["chat_message_outbox"] : set of dictionaries
  database,       \* MessageQueue.database is non-nil
  isProcessing,   \* MessageQueue.isProcessing
  currentUser,    \* ChatService.currentUserId / currentUserDisplayName, NoUser when nil
  bridgeListeners,\* ChatService.onMessageAck / onMessageFailed are set
  inflight,       \* setValue calls whose completion block has not run yet
  timers,         \* asyncAfter closures not yet run: the times they become runnable
  remote,         \* remote store: the paths <<room, key>> under chat/rooms that hold a record
  now,            \* the instant Date() returns, in seconds
  nextLocal,      \* number of UUIDs handed out so far
  failures,       \* number of writes the remote store has answered with an error
  hist,           \* history of each entry: what happened to it, in program order
  calls,          \* per listener: its use of subscribeRoom and of the returned function
  registered,     \* ChatEventEmitter: the listeners added and not removed, in order
  subscriptions,  \* ChatSDKImpl.subscriptions : roomId -> listeners of one subscribeRoom call
  roomSubscriptions, \* ChatService.roomSubscriptions : roomId -> DatabaseHandle
  observers,      \* the .childAdded observers added and not removed: <<room, handle>>
  received,       \* per listener: the number of events its callback was invoked with
  seen,           \* the children each observer was called with: <<handle, path>>
  delivered,      \* per listener: the events of the outbox and of its own messages its
                  \* callback was invoked with, each with the number of times
  snapshot,       \* the records under chat/rooms/<roomId>/messages that a query reads
  response,       \* the MessagesResponse of the last getMessages, with its arguments
  pages,          \* the messages a caller paging through a room has been given, in order
  initialized,    \* ChatSDKImpl.initialized
  initCalls,      \* the calls of ChatSDKImpl.init so far: the user passed and how far it got
  nativeCalls,    \* the NativeChatModule methods called by operations other than init
  lastOp,         \* the last operation other than init and how it ended
  chains,         \* TokenRefreshService: per start() call, where the chain of asynchronous
                  \* work it began stands ("timer": its setTimeout is pending)
  refreshTimer,   \* TokenRefreshService.refreshTimer: the chain whose timer it names, 0 for null
  callbacks,      \* onTokenRefreshed and onRefreshFailed are set
  stopped,        \* stop() has returned and start() was not called since
  afterStop,      \* what the service has done since stop() returned
  activeMiniApp,  \* MiniAppLifecycleManager.activeMiniApp, "" for null
  listeners,      \* the mini apps with listeners for 'focus' and 'blur'
  notified        \* per mini app: the last two events its listeners were called with
                  \* since they were added

roomVars == <<calls, registered, subscriptions, roomSubscriptions, observers, received, seen>>
pageVars == <<snapshot, response, pages>>
sdkVars == <<initialized, initCalls, nativeCalls, lastOp>>
tokenVars == <<chains, refreshTimer, callbacks, stopped, afterStop>>
lifeVars == <<activeMiniApp, listeners, notified>>
appVars == <<sdkVars, tokenVars, lifeVars>>
chatVars == <<queue, store, database, isProcessing, currentUser, bridgeListeners,
              inflight, timers, remote, now, nextLocal, failures, hist,
              roomVars, delivered, pageVars>>

vars == <<queue, store, database, isProcessing, currentUser, bridgeListeners,
          inflight, timers, remote, now, nextLocal, failures, hist,
          calls, registered, subscriptions, roomSubscriptions, observers, received,
          seen, delivered, snapshot, response, pages,
          initialized, initCalls, nativeCalls, lastOp,
          chains, refreshTimer, callbacks, stopped, afterStop,
          activeMiniApp, listeners, notified>>

(* ------------------------------ helpers -------------------------------- *)
Min(a, b) == IF a < b THEN a ELSE b

\* the modelled time ends at MaxNow: a time after it is kept as Horizon
Horizon == MaxNow + 1
Clip(t) == Min(t, Horizon)

Perms(S) == { f \in [1..Cardinality(S) -> S] : \A i, j \in 1..Cardinality(S) : f[i] = f[j] => i = j }

Range(f) == { f[i] : i \in DOMAIN f }

\* String.prefix(8)
Prefix(s, n) == SubSeq(s, 1, Min(n, Len(s)))

\* "\(timestamp)_\(userId.prefix(8))"
MessageIdOf(timestamp, userId) == <<timestamp, Prefix(userId, PrefixLen)>>

\* Int64(Date().timeIntervalSince1970 * 1000)
TimestampMs(t) == t * 1000

\* QueuedMessage.toDictionary
toDictionary(qm) ==
  [localId |-> qm.localId, messageId |-> qm.message.id, roomId |-> qm.message.roomId,
   status |-> qm.status, retryCount |-> qm.retryCount, createdAt |-> qm.createdAt]

\* mutant: the message identifier is generated again when the queue is loaded
LoadEntry_NewId(dict, t) ==
  [localId |-> dict.localId,
   message |-> [id |-> MessageIdOf(TimestampMs(t), <<>>), roomId |-> dict.roomId, uid |-> <<>>,
                displayName |-> "", timestamp |-> TimestampMs(t)],
   status |-> dict.status, retryCount |-> dict.retryCount, createdAt |-> dict.createdAt]

\* one iteration of the loop of loadQueue: the message is rebuilt from the dictionary
LoadEntry(dict, t) ==
  [localId |-> dict.localId,
   message |-> [id |-> dict.messageId, roomId |-> dict.roomId, uid |-> <<>>,
                displayName |-> "", timestamp |-> TimestampMs(t)],
   status |-> dict.status, retryCount |-> dict.retryCount, createdAt |-> dict.createdAt]

loadQueue(st, t) ==
  [l \in {d.localId : d \in st} |-> LoadEntry(CHOOSE d \in st : d.localId = l, t)]

\* the history of an entry that does not exist yet
\*   orig    the ChatMessage built for it by sendMessage
\*   first   the kinds of things that happened to it, each at its first occurrence
\*   paths   the remote paths written for it
\*   delays  the delays handed to asyncAfter since it was enqueued or reset
\*   dueAt   the time the last asyncAfter closure scheduled for it becomes runnable
\*   acks    the payloads of the message_ack events sent for it
\*   fails   the failed attempts since it was enqueued or reset
\*   added   the bodies of the optimistic message_added events sent for it
\*   failedSent  the message_failed events sent for it since it was enqueued or
\*           reset, counted up to MaxSame
NoHist == [orig |-> NoMessage, first |-> <<>>, paths |-> {}, delays |-> <<>>,
           dueAt |-> 0, acks |-> <<>>, fails |-> 0, added |-> <<>>, failedSent |-> 0]

\* the part of the state a handler of MessageQueue reads and writes; out collects the
\* events the handler hands to ChatModule.sendEvent, in order, and sent the
\* entries it has called setValue for, in order
Cur == [queue |-> queue, store |-> store, isProcessing |-> isProcessing,
        inflight |-> inflight, timers |-> timers, hist |-> hist, out |-> << >>,
        sent |-> << >>]

\* the body of an event as the listeners of subscribeRoom read it
Event(type, localId, messageId, roomId) ==
  [type |-> type, localId |-> localId, messageId |-> messageId, roomId |-> roomId]

\* record the first occurrence of kind for entry l
Mark(S, l, kind) ==
  IF kind \in Range(S.hist[l].first) THEN S
  ELSE [S EXCEPT !.hist[l].first = Append(@, kind)]

(* --------------------------- MessageQueue ------------------------------ *)
\* "saved" marks the first write of the store that holds the entry as PENDING, retry 0
saveQueue(S) ==
  LET queueData == { toDictionary(S.queue[l]) : l \in DOMAIN S.queue }
      fresh == { d.localId : d \in { x \in queueData : x.status = "PENDING" /\ x.retryCount = 0 } }
  IN  [S EXCEPT !.store = queueData,
                !.hist = [l \in DOMAIN @ |->
                           IF l \in fresh /\ "saved" \notin Range(@[l].first)
                           THEN [@[l] EXCEPT !.first = Append(@, "saved")]
                           ELSE @[l]]]

\* messageQueue.onMessageFailed -> chatService.onMessageFailed -> sendEvent("message_failed")
onMessageFailed(S, l, reason, bl) ==
  IF bl
  THEN Mark([S EXCEPT !.out = Append(@, Event("message_failed", l, NoCursor, "")),
                      !.hist[l].failedSent = Min(@ + 1, MaxSame)],
            l, "message_failed")
  ELSE S

\* messageQueue.onMessageSent -> chatService.onMessageAck -> sendEvent("message_ack")
onMessageSent(S, l, messageId, bl) ==
  IF bl
  THEN Mark([S EXCEPT !.hist[l].acks = Append(@, [localId |-> l, messageId |-> messageId]),
                      !.out = Append(@, Event("message_ack", l, messageId, ""))],
            l, "message_ack")
  ELSE S

sendToFirebase(S, qm) ==
  LET l == qm.localId
      path == <<qm.message.roomId, qm.message.id>>
      \* n tells apart the completion blocks pending for one entry
      w == [localId |-> l, path |-> path, data |-> qm.message,
            n |-> Cardinality({ x \in S.inflight : x.localId = l }) + 1]
  IN  Mark([S EXCEPT !.inflight = @ \cup {w},
                     !.sent = Append(@, l),
                     !.hist[l].paths = @ \cup {path}],
           l, "setValue")

\* mutant: the filter keeps every entry that is not sent
pendingMessages_NotSent(q) == { l \in DOMAIN q : q[l].status # "SENT" }

\* the filter of processQueue
pendingMessages(q) == { l \in DOMAIN q : q[l].status = "PENDING" \/ q[l].status = "FAILED" }

\* mutant: the retry budget is not checked before sending
processOne_NoBudget(S, qm0, bl) ==
  LET l == qm0.localId
      qm == [qm0 EXCEPT !.status = "SENDING"]
  IN  sendToFirebase(saveQueue([S EXCEPT !.queue = (l :> qm) @@ @]), qm)

\* the body of the loop of processQueue for one element of pendingMessages
processOne(S, qm0, bl) ==
  LET l == qm0.localId
  IN  IF qm0.retryCount >= maxRetries
      THEN LET qm == [qm0 EXCEPT !.status = "FAILED"]
           IN  onMessageFailed(saveQueue([S EXCEPT !.queue = (l :> qm) @@ @]),
                               l, "Max retries exceeded", bl)
      ELSE LET qm == [qm0 EXCEPT !.status = "SENDING"]
           IN  sendToFirebase(saveQueue([S EXCEPT !.queue = (l :> qm) @@ @]), qm)

RECURSIVE processLoop(_, _, _, _)
processLoop(S, snap, order, bl) ==
  IF order = <<>> THEN S
  ELSE processLoop(processOne(S, snap[Head(order)], bl), snap, Tail(order), bl)

\* order: the order in which queue.values yields the filtered entries
processQueue(S, order, db, bl) ==
  IF S.isProcessing \/ ~db THEN S
  ELSE LET S1 == [S EXCEPT !.isProcessing = TRUE]
           S2 == processLoop(S1, S.queue, order, bl)
       IN  [S2 EXCEPT !.isProcessing = FALSE]

\* mutant: the entry is put in the queue and not saved
enqueuePersist_NoSave(S, message, l, t) ==
  LET queuedMessage == [localId |-> l, message |-> message, status |-> "PENDING",
                        retryCount |-> 0, createdAt |-> t]
  IN  [S EXCEPT !.queue = (l :> queuedMessage) @@ @, !.hist[l].orig = message]

\* enqueue up to and including its saveQueue()
enqueuePersist(S, message, l, t) ==
  LET queuedMessage == [localId |-> l, message |-> message, status |-> "PENDING",
                        retryCount |-> 0, createdAt |-> t]
  IN  saveQueue([S EXCEPT !.queue = (l :> queuedMessage) @@ @,
                          !.hist[l].orig = message])

\* mutant: the drain runs before the entry is saved
enqueue_DrainFirst(S, message, l, t, order, db, bl) ==
  LET queuedMessage == [localId |-> l, message |-> message, status |-> "PENDING",
                        retryCount |-> 0, createdAt |-> t]
      S1 == [S EXCEPT !.queue = (l :> queuedMessage) @@ @, !.hist[l].orig = message]
  IN  Mark(saveQueue(processQueue(S1, order, db, bl)), l, "completion")

enqueue(S, message, l, t, order, db, bl) ==
  Mark(processQueue(enqueuePersist(S, message, l, t), order, db, bl), l, "completion")

\* mutant: the removal is not saved
handleSendSuccess_NoSave(S, l, messageId, bl) ==
  onMessageSent([S EXCEPT !.queue = [k \in DOMAIN @ \ {l} |-> @[k]]], l, messageId, bl)

\* mutant: the entry is kept and marked SENT
handleSendSuccess_MarksSent(S, l, messageId, bl) ==
  LET S1 == saveQueue([S EXCEPT !.queue[l].status = "SENT"])
  IN  onMessageSent(S1, l, messageId, bl)

handleSendSuccess(S, l, messageId, bl) ==
  LET S1 == saveQueue([S EXCEPT !.queue = [k \in DOMAIN @ \ {l} |-> @[k]]])
  IN  onMessageSent(S1, l, messageId, bl)

retryDelay(retryCount) == retryDelays[Min(retryCount - 1, Len(retryDelays) - 1) + 1]

\* mutant: the new status and retry counter are not saved
handleSendFailure_NoSave(S, l, t, bl) ==
  IF l \notin DOMAIN S.queue THEN S
  ELSE
    LET rc == S.queue[l].retryCount + 1
        H == [S EXCEPT !.hist[l].fails = @ + 1]
    IN  IF rc >= maxRetries
        THEN LET qm == [S.queue[l] EXCEPT !.retryCount = rc, !.status = "FAILED"]
             IN  onMessageFailed([H EXCEPT !.queue[l] = qm], l, "error", bl)
        ELSE LET qm == [S.queue[l] EXCEPT !.retryCount = rc, !.status = "PENDING"]
                 S1 == [H EXCEPT !.queue[l] = qm]
                 delay == retryDelay(rc)
             IN  [S1 EXCEPT !.timers = @ \cup {Clip(t + delay)},
                            !.hist[l].delays = Append(@, delay),
                            !.hist[l].dueAt = Clip(t + delay)]

\* mutant: the entry is marked FAILED one failure early
handleSendFailure_FailsEarly(S, l, t, bl) ==
  IF l \notin DOMAIN S.queue THEN S
  ELSE
    LET rc == S.queue[l].retryCount + 1
        H == [S EXCEPT !.hist[l].fails = @ + 1]
    IN  IF rc >= maxRetries - 1
        THEN LET qm == [S.queue[l] EXCEPT !.retryCount = rc, !.status = "FAILED"]
             IN  onMessageFailed(saveQueue([H EXCEPT !.queue[l] = qm]), l, "error", bl)
        ELSE LET qm == [S.queue[l] EXCEPT !.retryCount = rc, !.status = "PENDING"]
                 S1 == saveQueue([H EXCEPT !.queue[l] = qm])
                 delay == retryDelay(rc)
             IN  [S1 EXCEPT !.timers = @ \cup {Clip(t + delay)},
                            !.hist[l].delays = Append(@, delay),
                            !.hist[l].dueAt = Clip(t + delay)]

handleSendFailure(S, l, t, bl) ==
  IF l \notin DOMAIN S.queue THEN S
  ELSE
    LET rc == S.queue[l].retryCount + 1
        H == [S EXCEPT !.hist[l].fails = @ + 1]
    IN  IF rc >= maxRetries
        THEN LET qm == [S.queue[l] EXCEPT !.retryCount = rc, !.status = "FAILED"]
             IN  onMessageFailed(saveQueue([H EXCEPT !.queue[l] = qm]), l, "error", bl)
        ELSE LET qm == [S.queue[l] EXCEPT !.retryCount = rc, !.status = "PENDING"]
                 S1 == saveQueue([H EXCEPT !.queue[l] = qm])
                 delay == retryDelay(rc)
             IN  [S1 EXCEPT !.timers = @ \cup {Clip(t + delay)},
                            !.hist[l].delays = Append(@, delay),
                            !.hist[l].dueAt = Clip(t + delay)]

\* the loop of retryFailed followed by saveQueue
resetFailed(S) ==
  LET failed == { l \in DOMAIN S.queue : S.queue[l].status = "FAILED" }
  IN  saveQueue([S EXCEPT
        !.queue = [l \in DOMAIN @ |-> IF l \in failed
                                      THEN [@[l] EXCEPT !.status = "PENDING", !.retryCount = 0]
                                      ELSE @[l]],
        !.hist = [l \in DOMAIN @ |-> IF l \in failed
                                     THEN [@[l] EXCEPT !.fails = 0, !.delays = <<>>,
                                                       !.failedSent = 0]
                                     ELSE @[l]]])

\* mutant: the entries are reset and saved, and no drain is started
retryFailed_NoDrain(S, order, db, bl) == resetFailed(S)

\* retryFailed
retryFailed(S, order, db, bl) == processQueue(resetFailed(S), order, db, bl)

(* ------------------------------ actions -------------------------------- *)
\* the count of an event grows by one; counts above MaxSame are kept as MaxSame
AddEvent(bag, ev) ==
  IF ev \in DOMAIN bag THEN [bag EXCEPT ![ev] = Min(@ + 1, MaxSame)]
  ELSE (ev :> 1) @@ bag

\* the listener added by subscribeRoom for the type of ev calls the callback of c:
\* the message_added listener compares the room of the message with its own, the
\* message_ack and message_failed listeners compare nothing
ListenerTakes(c, ev) ==
  ev.type = "message_added" => ev.roomId = calls[c].room

\* ChatEventEmitter hands the events of out to the listeners added and not removed
RECURSIVE Deliver(_, _)
Deliver(del, out) ==
  IF out = << >> THEN del
  ELSE Deliver([c \in Listeners |->
                 IF c \in Range(registered) /\ ListenerTakes(c, Head(out))
                 THEN AddEvent(del[c], Head(out)) ELSE del[c]],
               Tail(out))

Install(S) ==
  /\ delivered' = Deliver(delivered, S.out)
  /\ queue' = S.queue
  /\ store' = S.store
  /\ isProcessing' = S.isProcessing
  /\ inflight' = S.inflight
  /\ timers' = S.timers
  /\ hist' = S.hist

NoOp == [op |-> "", result |-> ""]

\* a JavaScript context in which chat.init has not been called
SdkInit ==
  /\ initialized = FALSE
  /\ initCalls = << >>
  /\ nativeCalls = {}
  /\ lastOp = NoOp

\* new TokenRefreshService()
TokenInit ==
  /\ chains = << >>
  /\ refreshTimer = 0
  /\ callbacks = FALSE
  /\ stopped = FALSE
  /\ afterStop = {}

\* new MiniAppLifecycleManager()
LifeInit ==
  /\ activeMiniApp = ""
  /\ listeners = {}
  /\ notified = [app \in MiniApps |-> << >>]

AppInit ==
  /\ SdkInit
  /\ TokenInit
  /\ LifeInit

\* a process in which JavaScript has not called subscribeRoom yet
RoomInit ==
  /\ calls = [c \in Listeners |-> NoCall]
  /\ registered = << >>
  /\ subscriptions = << >>
  /\ roomSubscriptions = << >>
  /\ observers = {}
  /\ received = [c \in Listeners |-> 0]
  /\ seen = {}
  /\ delivered = [c \in Listeners |-> << >>]

Init ==
  /\ queue = << >>
  /\ store = {}
  /\ database = FALSE
  /\ isProcessing = FALSE
  /\ currentUser = NoUser
  /\ bridgeListeners = FALSE
  /\ inflight = {}
  /\ timers = {}
  /\ remote = {}
  /\ now = 0
  /\ nextLocal = 0
  /\ failures = 0
  /\ hist = [l \in LocalIds |-> NoHist]
  /\ RoomInit
  /\ snapshot = {}
  /\ response = NoResponse
  /\ pages = << >>
  /\ AppInit

\* ChatModule.initialize -> ChatService.initialize -> startProcessing, then setupEventListeners
initializeNative(userId, displayName) ==
  /\ \E order \in Perms(pendingMessages(queue)) :
        Install(processQueue(Cur, order, TRUE, bridgeListeners))
  /\ currentUser' = [set |-> TRUE, userId |-> userId, displayName |-> displayName]
  /\ database' = TRUE
  /\ bridgeListeners' = TRUE
  /\ UNCHANGED <<remote, now, nextLocal, failures, roomVars, pageVars>>

\* the native initialize runs for a user with a userId
Initialize(userId, displayName) ==
  /\ initializeNative(userId, displayName)
  /\ UNCHANGED appVars

\* mutant: no optimistic event is sent when enqueue completes
messageAdded_None(S, l, roomId, message) == S

\* ChatModule.sendMessage, success branch of the completion: the optimistic
\* message_added event, with the body it is sent with
messageAdded(S, l, roomId, message) ==
  Mark([S EXCEPT !.hist[l].added = Append(@, [roomId |-> roomId, message |-> message]),
                 !.out = Append(@, Event("message_added", 0, message.id, message.roomId))],
       l, "message_added")

\* the ChatMessage built by ChatService.sendMessage
NewMessage(roomId, t) ==
  [id |-> MessageIdOf(TimestampMs(t), currentUser.userId), roomId |-> roomId,
   uid |-> currentUser.userId, displayName |-> currentUser.displayName,
   timestamp |-> TimestampMs(t)]

\* ChatModule.sendMessage -> ChatService.sendMessage -> MessageQueue.enqueue, then the
\* optimistic message_added event; without a current user the call is rejected
SendMessage(roomId) ==
  IF ~currentUser.set
  THEN UNCHANGED vars
  ELSE /\ nextLocal < MaxMessages
       /\ LET l == nextLocal + 1
              message == NewMessage(roomId, now)
          IN  /\ \E order \in Perms(pendingMessages(queue) \cup {l}) :
                    Install(messageAdded(
                              enqueue(Cur, message, l, now, order, database, bridgeListeners),
                              l, roomId, message))
              /\ nextLocal' = l
       /\ UNCHANGED <<database, currentUser, bridgeListeners, remote, now, failures,
                       roomVars, pageVars, appVars>>

\* enqueue when the write of its saveQueue() does not reach the disk (synchronize()
\* returns false, and the result is not read): the store keeps what it held
enqueueStoreFails(S, message, l, t, order, db, bl) ==
  LET queuedMessage == [localId |-> l, message |-> message, status |-> "PENDING",
                        retryCount |-> 0, createdAt |-> t]
      S1 == Mark([S EXCEPT !.queue = (l :> queuedMessage) @@ @, !.hist[l].orig = message],
                 l, "saveFailed")
  IN  Mark(processQueue(S1, order, db, bl), l, "completion")

\* sendMessage while the store cannot be written
SendMessageStoreFails(roomId) ==
  /\ currentUser.set
  /\ nextLocal < MaxMessages
  /\ LET l == nextLocal + 1
         message == NewMessage(roomId, now)
     IN  /\ \E order \in Perms(pendingMessages(queue) \cup {l}) :
               Install(messageAdded(
                         enqueueStoreFails(Cur, message, l, now, order, database,
                                           bridgeListeners),
                         l, roomId, message))
         /\ nextLocal' = l
  /\ UNCHANGED <<database, currentUser, bridgeListeners, remote, now, failures,
                 roomVars, pageVars, appVars>>

\* the completion block of setValue runs without error
SendSucceeded(w) ==
  /\ w \in inflight
  /\ Install(handleSendSuccess([Cur EXCEPT !.inflight = @ \ {w}], w.localId, w.data.id, bridgeListeners))
  /\ remote' = remote \cup {w.path}
  /\ UNCHANGED <<database, currentUser, bridgeListeners, now, nextLocal, failures,
                 roomVars, pageVars, appVars>>

\* the completion block of setValue runs with an error
SendFailed(w) ==
  /\ w \in inflight
  /\ failures < MaxFailures
  /\ failures' = failures + 1
  /\ Install(handleSendFailure([Cur EXCEPT !.inflight = @ \ {w}], w.localId, now, bridgeListeners))
  /\ UNCHANGED <<database, currentUser, bridgeListeners, remote, now, nextLocal,
                 roomVars, pageVars, appVars>>

\* the closure handed to DispatchQueue.main.asyncAfter runs
TimerFire(tm) ==
  /\ tm \in timers
  /\ tm <= now
  /\ \E order \in Perms(pendingMessages(queue)) :
        Install(processQueue([Cur EXCEPT !.timers = @ \ {tm}], order, database, bridgeListeners))
  /\ UNCHANGED <<database, currentUser, bridgeListeners, remote, now, nextLocal, failures,
                 roomVars, pageVars, appVars>>

RetryFailed ==
  /\ \E order \in Perms(pendingMessages(resetFailed(Cur).queue)) :
        Install(retryFailed(Cur, order, database, bridgeListeners))
  /\ UNCHANGED <<database, currentUser, bridgeListeners, remote, now, nextLocal, failures,
                 roomVars, pageVars, appVars>>

\* the wall clock advances
Advance ==
  /\ now < MaxNow
  /\ now' = now + 1
  /\ UNCHANGED <<queue, store, database, isProcessing, currentUser, bridgeListeners,
                 inflight, timers, remote, nextLocal, failures, hist, roomVars,
                 delivered, pageVars, appVars>>

\* the process dies and is launched again: MessageQueue.init runs loadQueue on what
\* the store held; writes in flight may or may not have reached the remote store
Relaunch(st, applied, h) ==
  /\ queue' = loadQueue(st, now)
  /\ store' = st
  /\ database' = FALSE
  /\ isProcessing' = FALSE
  /\ currentUser' = NoUser
  /\ bridgeListeners' = FALSE
  /\ inflight' = {}
  /\ timers' = {}
  /\ remote' = remote \cup { w.path : w \in applied }
  /\ hist' = h
  /\ calls' = [c \in Listeners |-> NoCall]
  /\ registered' = << >>
  /\ subscriptions' = << >>
  /\ roomSubscriptions' = << >>
  /\ observers' = {}
  /\ received' = [c \in Listeners |-> 0]
  /\ seen' = {}
  /\ delivered' = [c \in Listeners |-> << >>]
  /\ UNCHANGED <<now, failures, pageVars, appVars>>

Restart ==
  /\ \E applied \in SUBSET inflight : Relaunch(store, applied, hist)
  /\ UNCHANGED nextLocal

\* the process dies inside enqueue, after saveQueue() and before processQueue()
SendMessageKilled(roomId) ==
  /\ currentUser.set
  /\ nextLocal < MaxMessages
  /\ LET l == nextLocal + 1
         S == enqueuePersist(Cur, NewMessage(roomId, now), l, now)
     IN  /\ \E applied \in SUBSET inflight : Relaunch(S.store, applied, S.hist)
         /\ nextLocal' = l

Next ==
  \/ \E u \in UserIds, dn \in DisplayNames : Initialize(u, dn)
  \/ \E r \in Rooms : SendMessage(r)
  \/ \E w \in inflight : SendSucceeded(w)
  \/ \E w \in inflight : SendFailed(w)
  \/ \E tm \in timers : TimerFire(tm)
  \/ RetryFailed
  \/ Advance
  \/ Restart

\* the process dies between two handlers
Spec == Init /\ [][Next]_vars

\* the process dies inside enqueue
NextKill ==
  \/ \E u \in UserIds, dn \in DisplayNames : Initialize(u, dn)
  \/ \E r \in Rooms : SendMessage(r)
  \/ \E w \in inflight : SendSucceeded(w)
  \/ \E w \in inflight : SendFailed(w)
  \/ \E tm \in timers : TimerFire(tm)
  \/ RetryFailed
  \/ Advance
  \/ \E r \in Rooms : SendMessageKilled(r)

KillSpec == Init /\ [][NextKill]_vars

\* the write of the store may fail inside enqueue
StorageNext ==
  \/ \E u \in UserIds, dn \in DisplayNames : Initialize(u, dn)
  \/ \E r \in Rooms : SendMessage(r)
  \/ \E w \in inflight : SendSucceeded(w)
  \/ \E w \in inflight : SendFailed(w)
  \/ \E tm \in timers : TimerFire(tm)
  \/ Advance
  \/ \E r \in Rooms : SendMessageStoreFails(r)

StorageSpec == Init /\ [][StorageNext]_vars

\* the remote store answers every write, closures scheduled with asyncAfter run,
\* the application initializes the chat after a launch
FairSpec ==
  /\ Spec
  /\ WF_vars(\E u \in UserIds, dn \in DisplayNames : Initialize(u, dn))
  /\ WF_vars(\E w \in inflight : SendSucceeded(w) \/ SendFailed(w))
  /\ WF_vars(\E tm \in timers : TimerFire(tm))
  /\ WF_vars(Advance)

(* ------------------------- room subscriptions ------------------------- *)
Without(f, k) == [x \in DOMAIN f \ {k} |-> f[x]]

Remove(seq, c) == SelectSeq(seq, LAMBDA x : x # c)

\* ChatService.subscribeToRoom: a new observer, whose handle replaces the one kept
\* for the room
subscribeToRoom(N, roomId, handle) ==
  [roomSubscriptions |-> (roomId :> handle) @@ N.roomSubscriptions,
   observers |-> N.observers \cup {<<roomId, handle>>}]

\* ChatService.unsubscribeFromRoom: the observer of the handle kept for the room
unsubscribeFromRoom(N, roomId) ==
  IF roomId \in DOMAIN N.roomSubscriptions
  THEN [roomSubscriptions |-> Without(N.roomSubscriptions, roomId),
        observers |-> N.observers \ {<<roomId, N.roomSubscriptions[roomId]>>}]
  ELSE N

Native == [roomSubscriptions |-> roomSubscriptions, observers |-> observers]

\* ChatSDKImpl.subscribeRoom(roomId, callback of c); the handle of the observer is
\* named after the call that made it
SubscribeRoom(c, roomId) ==
  IF ~currentUser.set
  THEN UNCHANGED vars
  ELSE /\ calls[c].state = "idle"
       /\ LET N == subscribeToRoom(Native, roomId, c)
          IN  /\ roomSubscriptions' = N.roomSubscriptions
              /\ observers' = N.observers
       /\ registered' = Append(registered, c)
       /\ subscriptions' = (roomId :> c) @@ subscriptions
       /\ calls' = [calls EXCEPT ![c] = [state |-> "subscribed", room |-> roomId]]
       /\ UNCHANGED <<queue, store, database, isProcessing, currentUser, bridgeListeners,
                      inflight, timers, remote, now, nextLocal, failures, hist,
                      received, seen, delivered, pageVars, appVars>>

\* mutant: unsubscribing also cancels the writes in flight for the room
Unsubscribe_CancelsSends(c) ==
  /\ calls[c].state = "subscribed"
  /\ LET roomId == calls[c].room
         N == unsubscribeFromRoom(Native, roomId)
     IN  /\ IF roomId \in DOMAIN subscriptions
             THEN /\ registered' = Remove(registered, subscriptions[roomId])
                  /\ subscriptions' = Without(subscriptions, roomId)
             ELSE UNCHANGED <<registered, subscriptions>>
         /\ roomSubscriptions' = N.roomSubscriptions
         /\ observers' = N.observers
         /\ inflight' = { w \in inflight : w.path[1] # roomId }
  /\ calls' = [calls EXCEPT ![c].state = "unsubscribed"]
  /\ UNCHANGED <<queue, store, database, isProcessing, currentUser, bridgeListeners,
                 timers, remote, now, nextLocal, failures, hist,
                 received, seen, delivered, pageVars, appVars>>

\* the function returned to c by subscribeRoom: it removes the listeners kept in
\* subscriptions for the room, then calls the native unsubscribeFromRoom
Unsubscribe(c) ==
  /\ calls[c].state = "subscribed"
  /\ LET roomId == calls[c].room
         N == unsubscribeFromRoom(Native, roomId)
     IN  /\ IF roomId \in DOMAIN subscriptions
             THEN /\ registered' = Remove(registered, subscriptions[roomId])
                  /\ subscriptions' = Without(subscriptions, roomId)
             ELSE UNCHANGED <<registered, subscriptions>>
         /\ roomSubscriptions' = N.roomSubscriptions
         /\ observers' = N.observers
  /\ calls' = [calls EXCEPT ![c].state = "unsubscribed"]
  /\ UNCHANGED <<queue, store, database, isProcessing, currentUser, bridgeListeners,
                 inflight, timers, remote, now, nextLocal, failures, hist,
                 received, seen, delivered, pageVars, appVars>>

\* ChatEventEmitter delivers a message_added event of room roomId: the listeners are
\* called in the order they were added; each calls its callback when the room of the
\* message is its own; an exception of the callback of thrower ends the delivery
RECURSIVE emit(_, _, _, _)
emit(reg, roomId, thrower, rec) ==
  IF reg = << >> THEN rec
  ELSE LET c == Head(reg)
       IN  IF calls[c].room # roomId
           THEN emit(Tail(reg), roomId, thrower, rec)
           ELSE IF c = thrower
                THEN [rec EXCEPT ![c] = @ + 1]
                ELSE emit(Tail(reg), roomId, thrower, [rec EXCEPT ![c] = @ + 1])

\* an observer of ChatService is called with a child added to its room:
\* handleChatEvent sends message_added, and no callback throws
ObserverFires(o) ==
  /\ o \in observers
  /\ \A c \in Listeners : received[c] < MaxEvents
  /\ received' = emit(registered, o[1], "", received)
  /\ UNCHANGED <<queue, store, database, isProcessing, currentUser, bridgeListeners,
                 inflight, timers, remote, now, nextLocal, failures, hist,
                 calls, registered, subscriptions, roomSubscriptions, observers,
                 seen, delivered, pageVars, appVars>>

\* the same, and the callback of listener thrower throws: the listeners added by
\* subscribeRoom call the callback without try/catch, so the exception leaves the
\* listener and ends the loop of the emitter
ObserverFiresThrows(o, thrower) ==
  /\ o \in observers
  /\ thrower \in Range(registered)
  /\ calls[thrower].room = o[1]
  /\ \A c \in Listeners : received[c] < MaxEvents
  /\ received' = emit(registered, o[1], thrower, received)
  /\ UNCHANGED <<queue, store, database, isProcessing, currentUser, bridgeListeners,
                 inflight, timers, remote, now, nextLocal, failures, hist,
                 calls, registered, subscriptions, roomSubscriptions, observers,
                 seen, delivered, pageVars, appVars>>

RoomNext ==
  \/ \E u \in UserIds, dn \in DisplayNames : Initialize(u, dn)
  \/ \E c \in Listeners, r \in Rooms : SubscribeRoom(c, r)
  \/ \E c \in Listeners : Unsubscribe(c)
  \/ \E o \in observers : ObserverFires(o)

\* listeners subscribe to rooms and unsubscribe while the remote store adds messages
RoomSpec == Init /\ [][RoomNext]_vars

\* the outbox sends and fails while one listener subscribes to a room and unsubscribes
UnsubNext ==
  \/ \E u \in UserIds, dn \in DisplayNames : Initialize(u, dn)
  \/ \E r \in Rooms : SendMessage(r)
  \/ \E w \in inflight : SendSucceeded(w)
  \/ \E w \in inflight : SendFailed(w)
  \/ \E r \in Rooms : SubscribeRoom("A", r)
  \/ Unsubscribe("A")

UnsubSpec == Init /\ [][UnsubNext]_vars

ThrowNext ==
  \/ \E u \in UserIds, dn \in DisplayNames : Initialize(u, dn)
  \/ \E c \in Listeners, r \in Rooms : SubscribeRoom(c, r)
  \/ \E c \in Listeners : Unsubscribe(c)
  \/ \E o \in observers : ObserverFires(o)
  \/ \E o \in observers, c \in Listeners : ObserverFiresThrows(o, c)

\* the same, with callbacks that may throw
ThrowSpec == Init /\ [][ThrowNext]_vars

ChatRooms == {"r1", "r2"}

\* the remote paths that hold a record in the local view of the database: the records
\* acknowledged and the records of the setValue calls in flight
LocalPaths == remote \cup { w.path : w \in inflight }

\* the .childAdded observer o of subscribeToRoom is called, once for a child, with the
\* record at path; handleChatEvent sends message_added with the message parsed from it
ChildAdded(o, path) ==
  /\ o \in observers
  /\ path \in LocalPaths
  /\ path[1] = o[1]
  /\ <<o[2], path>> \notin seen
  /\ \A c \in Listeners : received[c] < MaxEvents
  /\ seen' = seen \cup {<<o[2], path>>}
  /\ received' = emit(registered, path[1], "", received)
  /\ delivered' = Deliver(delivered, <<Event("message_added", 0, path[2], path[1])>>)
  /\ UNCHANGED <<queue, store, database, isProcessing, currentUser, bridgeListeners,
                 inflight, timers, remote, now, nextLocal, failures, hist,
                 calls, registered, subscriptions, roomSubscriptions, observers, pageVars, appVars>>

EchoNext ==
  \/ \E u \in UserIds, dn \in DisplayNames : Initialize(u, dn)
  \/ \E c \in Listeners, r \in ChatRooms : SubscribeRoom(c, r)
  \/ \E r \in ChatRooms : SendMessage(r)
  \/ \E w \in inflight : SendSucceeded(w)
  \/ \E w \in inflight : SendFailed(w)
  \/ \E o \in observers, path \in LocalPaths : ChildAdded(o, path)

\* a user sends messages to two rooms while listeners are subscribed to them
EchoSpec == Init /\ [][EchoNext]_vars

(* ----------------------------- getMessages ---------------------------- *)
\* the records a room can hold: one per timestamp, written by one sender
Records ==
  { [id |-> MessageIdOf(ts, u), timestamp |-> ts] : ts \in 1..MaxTs, u \in UserIds }

\* Int64(before.split(separator: "_").first)
CursorTimestamp(before) == before[1]

\* queryOrdered(byChild: "timestamp").queryEnding(atValue: beforeTimestamp)
queryEnding(recs, before) ==
  IF before = NoCursor THEN recs
  ELSE { m \in recs : m.timestamp <= CursorTimestamp(before) }

\* messages.sort { $0.timestamp > $1.timestamp }
RECURSIVE sortDescending(_)
sortDescending(recs) ==
  IF recs = {} THEN << >>
  ELSE LET m == CHOOSE x \in recs : \A y \in recs : y.timestamp <= x.timestamp
       IN  <<m>> \o sortDescending(recs \ {m})

\* queryLimited(toLast: limit): the limit records with the greatest timestamps
queryLimited(recs, limit) ==
  LET sorted == sortDescending(recs)
  IN  { sorted[i] : i \in 1..Min(limit, Len(sorted)) }

getMessages_FirstAsCursor(recs, limit, before) ==
  LET messages == sortDescending(queryLimited(queryEnding(recs, before), limit))
  IN  [limit |-> limit, before |-> before,
       messages |-> messages,
       hasMore |-> (Len(messages) = limit),
       nextCursor |-> IF messages = << >> THEN NoCursor ELSE messages[1].id]

\* ChatService.getMessages
getMessages(recs, limit, before) ==
  LET messages == sortDescending(queryLimited(queryEnding(recs, before), limit))
  IN  [limit |-> limit, before |-> before,
       messages |-> messages,
       hasMore |-> (Len(messages) = limit),
       nextCursor |-> IF messages = << >> THEN NoCursor ELSE messages[Len(messages)].id]

\* a room holding any set of messages with distinct timestamps
PageInit ==
  /\ queue = << >>
  /\ store = {}
  /\ database = FALSE
  /\ isProcessing = FALSE
  /\ currentUser = NoUser
  /\ bridgeListeners = FALSE
  /\ inflight = {}
  /\ timers = {}
  /\ remote = {}
  /\ now = 0
  /\ nextLocal = 0
  /\ failures = 0
  /\ hist = [l \in LocalIds |-> NoHist]
  /\ RoomInit
  /\ snapshot \in SUBSET Records
  /\ response = NoResponse
  /\ pages = << >>
  /\ AppInit

\* ChatModule.getMessages -> ChatService.getMessages; the cursor is the identifier of
\* a message of the room, e.g. the nextCursor of an earlier page
GetMessages(limit, before) ==
  /\ currentUser.set
  /\ response' = getMessages(snapshot, limit, before)
  /\ UNCHANGED <<queue, store, database, isProcessing, currentUser, bridgeListeners,
                 inflight, timers, remote, now, nextLocal, failures, hist,
                 roomVars, delivered, snapshot, pages, appVars>>

PageNext ==
  \/ \E u \in UserIds, dn \in DisplayNames : Initialize(u, dn)
  \/ \E limit \in 1..MaxLimit :
       \E before \in {NoCursor} \cup { m.id : m \in snapshot } : GetMessages(limit, before)

PageSpec == PageInit /\ [][PageNext]_vars

\* a caller starts to page through the room: getMessages(roomId, limit)
TraverseFirst(limit) ==
  /\ currentUser.set
  /\ response' = getMessages(snapshot, limit, NoCursor)
  /\ pages' = response'.messages
  /\ UNCHANGED <<queue, store, database, isProcessing, currentUser, bridgeListeners,
                 inflight, timers, remote, now, nextLocal, failures, hist,
                 roomVars, delivered, snapshot, appVars>>

NoRepeat(seq) == \A i, j \in DOMAIN seq : i # j => seq[i].id # seq[j].id

\* the caller asks for the next page while hasMore is true, with before = the
\* nextCursor of the page before; the traversal is followed until it has returned a
\* message for the second time
TraverseNext ==
  /\ currentUser.set
  /\ response.limit > 0
  /\ response.hasMore
  /\ NoRepeat(pages)
  /\ response' = getMessages(snapshot, response.limit, response.nextCursor)
  /\ pages' = pages \o response'.messages
  /\ UNCHANGED <<queue, store, database, isProcessing, currentUser, bridgeListeners,
                 inflight, timers, remote, now, nextLocal, failures, hist,
                 roomVars, delivered, snapshot, appVars>>

TraversalNext ==
  \/ \E u \in UserIds, dn \in DisplayNames : Initialize(u, dn)
  \/ \E limit \in 1..MaxLimit : TraverseFirst(limit)
  \/ TraverseNext

TraverseSpec == PageInit /\ [][TraversalNext]_vars

\* closures scheduled with asyncAfter run and the application initializes the chat
\* after a launch; the remote store need not answer a write
SilentSpec ==
  /\ Spec
  /\ WF_vars(\E u \in UserIds, dn \in DisplayNames : Initialize(u, dn))
  /\ WF_vars(\E tm \in timers : TimerFire(tm))
  /\ WF_vars(Advance)

(* ------------------------------ ChatSDK -------------------------------- *)
\* the operations of ChatSDKImpl other than init
SdkOps == {"getRooms", "getRoom", "sendMessage", "subscribeRoom", "getMessages",
           "markAsRead", "createRoom", "joinRoom", "leaveRoom"}

\* the method of NativeChatModule an operation calls
NativeMethod(op) == IF op = "subscribeRoom" THEN "subscribeToRoom" ELSE op

\* chat.init(user) up to its await: NativeChatModule.initialize(user) is called;
\* hasUserId tells whether user carries a userId
InitCalled(hasUserId) ==
  /\ Len(initCalls) < MaxInits
  /\ initCalls' = Append(initCalls, [hasUserId |-> hasUserId, state |-> "called"])
  /\ UNCHANGED <<initialized, nativeCalls, lastOp, chatVars, tokenVars, lifeVars>>

\* ChatModule.initialize runs for call i: without a userId it rejects and does
\* nothing else, with one it runs ChatService.initialize and resolves
InitNative(i, userId, displayName) ==
  /\ i \in DOMAIN initCalls
  /\ initCalls[i].state = "called"
  /\ IF initCalls[i].hasUserId
     THEN /\ initializeNative(userId, displayName)
          /\ initCalls' = [initCalls EXCEPT ![i].state = "resolved"]
     ELSE /\ initCalls' = [initCalls EXCEPT ![i].state = "rejected"]
          /\ UNCHANGED chatVars
  /\ UNCHANGED <<initialized, nativeCalls, lastOp, tokenVars, lifeVars>>

\* mutant: the flag is set whatever the native call answered
initAfterAwait_AnyOutcome(flag, outcome) == TRUE

\* chat.init after its await: the flag is set when the native call resolved; when it
\* rejected the catch block throws the error again
initAfterAwait(flag, outcome) == IF outcome = "resolved" THEN TRUE ELSE flag

\* the rest of chat.init runs for call i, and the promise init returned settles
InitSettles(i) ==
  /\ i \in DOMAIN initCalls
  /\ initCalls[i].state \in {"resolved", "rejected"}
  /\ initialized' = initAfterAwait(initialized, initCalls[i].state)
  /\ initCalls' = [initCalls EXCEPT ![i].state =
                     IF initCalls[i].state = "resolved" THEN "fulfilled" ELSE "failed"]
  /\ UNCHANGED <<nativeCalls, lastOp, chatVars, tokenVars, lifeVars>>

\* ensureInitialized
ensureInitialized(flag) == flag

\* an operation other than init up to its await: ensureInitialized throws, or the
\* method of NativeChatModule is called
Operation(op) ==
  /\ IF ensureInitialized(initialized)
     THEN /\ nativeCalls' = nativeCalls \cup {NativeMethod(op)}
          /\ lastOp' = [op |-> op, result |-> "called"]
     ELSE /\ nativeCalls' = nativeCalls
          /\ lastOp' = [op |-> op, result |-> "not-initialized"]
  /\ UNCHANGED <<initialized, initCalls, chatVars, tokenVars, lifeVars>>

SdkNext ==
  \/ \E hasUserId \in BOOLEAN : InitCalled(hasUserId)
  \/ \E i \in DOMAIN initCalls, u \in UserIds, dn \in DisplayNames : InitNative(i, u, dn)
  \/ \E i \in DOMAIN initCalls : InitSettles(i)
  \/ \E op \in SdkOps : Operation(op)

\* JavaScript calls init and the other operations of the SDK in any order
SdkSpec == Init /\ [][SdkNext]_vars

(* ------------------------ TokenRefreshService -------------------------- *)
\* what a read of the token finds: no token or one that cannot be decoded, a token
\* whose refresh time is ahead, a token whose refresh time has come
TokenReads == {"none", "fresh", "due"}

\* the service does something: it is recorded when stop() has returned
Does(what) == afterStop' = IF stopped THEN afterStop \cup {what} ELSE afterStop

\* start(onTokenRefreshed, onRefreshFailed): the callbacks are kept and
\* scheduleNextRefresh runs up to its await of AsyncStorage.getItem
Start ==
  /\ Len(chains) < MaxStarts
  /\ callbacks' = TRUE
  /\ chains' = Append(chains, "scheduleRead")
  /\ stopped' = FALSE
  /\ afterStop' = {}
  /\ UNCHANGED <<refreshTimer, chatVars, sdkVars, lifeVars>>

\* stop(): clearTimeout(this.refreshTimer) when it is set, and nothing else
stop(ch, rt) ==
  IF rt # 0
  THEN [chains |-> [c \in DOMAIN ch |-> IF c = rt /\ ch[c] = "timer" THEN "ended" ELSE ch[c]],
        refreshTimer |-> 0]
  ELSE [chains |-> ch, refreshTimer |-> rt]

Stop ==
  /\ callbacks
  /\ chains' = stop(chains, refreshTimer).chains
  /\ refreshTimer' = stop(chains, refreshTimer).refreshTimer
  /\ stopped' = TRUE
  /\ afterStop' = {}
  /\ UNCHANGED <<callbacks, chatVars, sdkVars, lifeVars>>

\* scheduleNextRefresh after its await: it returns, arms the timer, or calls
\* refreshToken, which runs up to its await of the two reads
ScheduleContinues(c, token) ==
  /\ c \in DOMAIN chains
  /\ chains[c] = "scheduleRead"
  /\ \/ /\ token = "none"
        /\ chains' = [chains EXCEPT ![c] = "ended"]
        /\ UNCHANGED <<refreshTimer, afterStop>>
     \/ /\ token = "fresh"
        /\ chains' = [chains EXCEPT ![c] = "timer"]
        /\ refreshTimer' = c
        /\ Does("timer armed")
     \/ /\ token = "due"
        /\ chains' = [chains EXCEPT ![c] = "refreshRead"]
        /\ Does("refresh")
        /\ UNCHANGED refreshTimer
  /\ UNCHANGED <<callbacks, stopped, chatVars, sdkVars, lifeVars>>

\* the function handed to setTimeout runs: refreshToken up to its await
TimerRuns(c) ==
  /\ c \in DOMAIN chains
  /\ chains[c] = "timer"
  /\ chains' = [chains EXCEPT ![c] = "refreshRead"]
  /\ Does("refresh")
  /\ UNCHANGED <<refreshTimer, callbacks, stopped, chatVars, sdkVars, lifeVars>>

\* refreshToken after the reads: with a token and the user info it writes the new
\* token and awaits the write, otherwise it throws and the catch block calls
\* onRefreshFailed
RefreshReads(c, found) ==
  /\ c \in DOMAIN chains
  /\ chains[c] = "refreshRead"
  /\ IF found
     THEN /\ chains' = [chains EXCEPT ![c] = "refreshWrite"]
          /\ UNCHANGED afterStop
     ELSE /\ chains' = [chains EXCEPT ![c] = "ended"]
          /\ IF callbacks THEN Does("onRefreshFailed") ELSE UNCHANGED afterStop
  /\ UNCHANGED <<refreshTimer, callbacks, stopped, chatVars, sdkVars, lifeVars>>

\* refreshToken after the write: onTokenRefreshed is called and scheduleNextRefresh
\* runs up to its await; a write that fails ends in the catch block
RefreshWrites(c, written) ==
  /\ c \in DOMAIN chains
  /\ chains[c] = "refreshWrite"
  /\ IF written
     THEN /\ chains' = [chains EXCEPT ![c] = "scheduleRead"]
          /\ IF callbacks THEN Does("onTokenRefreshed") ELSE UNCHANGED afterStop
     ELSE /\ chains' = [chains EXCEPT ![c] = "ended"]
          /\ IF callbacks THEN Does("onRefreshFailed") ELSE UNCHANGED afterStop
  /\ UNCHANGED <<refreshTimer, callbacks, stopped, chatVars, sdkVars, lifeVars>>

TokenNext ==
  \/ Start
  \/ Stop
  \/ \E c \in DOMAIN chains, token \in TokenReads : ScheduleContinues(c, token)
  \/ \E c \in DOMAIN chains : TimerRuns(c)
  \/ \E c \in DOMAIN chains, found \in BOOLEAN : RefreshReads(c, found)
  \/ \E c \in DOMAIN chains, written \in BOOLEAN : RefreshWrites(c, written)

\* start() and stop() are called while storage answers and timers run
TokenSpec == Init /\ [][TokenNext]_vars

(* ---------------------- MiniAppLifecycleManager ------------------------ *)
\* the last two elements of a sequence
LastTwo(seq) == IF Len(seq) <= 2 THEN seq ELSE SubSeq(seq, Len(seq) - 1, Len(seq))

\* emit(miniAppName, event): the listeners of the mini app for the event are called;
\* what a listener throws is caught
emitLifecycle(log, ls, miniAppName, event) ==
  IF miniAppName \in ls
  THEN [log EXCEPT ![miniAppName] = LastTwo(Append(@, event))]
  ELSE log

\* addEventListener(app, 'focus', f) and addEventListener(app, 'blur', g)
AddEventListeners(app) ==
  /\ app \notin listeners
  /\ listeners' = listeners \cup {app}
  /\ notified' = [notified EXCEPT ![app] = << >>]
  /\ UNCHANGED <<activeMiniApp, chatVars, sdkVars, tokenVars>>

\* clearMiniAppListeners(app)
ClearMiniAppListeners(app) ==
  /\ app \in listeners
  /\ listeners' = listeners \ {app}
  /\ notified' = [notified EXCEPT ![app] = << >>]
  /\ UNCHANGED <<activeMiniApp, chatVars, sdkVars, tokenVars>>

\* onMiniAppFocus(app)
OnMiniAppFocus(app) ==
  /\ LET blurred == IF activeMiniApp # "" /\ activeMiniApp # app
                    THEN emitLifecycle(notified, listeners, activeMiniApp, "blur")
                    ELSE notified
     IN  notified' = emitLifecycle(blurred, listeners, app, "focus")
  /\ activeMiniApp' = app
  /\ UNCHANGED <<listeners, chatVars, sdkVars, tokenVars>>

\* onMiniAppBlur(app)
OnMiniAppBlur(app) ==
  /\ activeMiniApp' = IF activeMiniApp = app THEN "" ELSE activeMiniApp
  /\ notified' = emitLifecycle(notified, listeners, app, "blur")
  /\ UNCHANGED <<listeners, chatVars, sdkVars, tokenVars>>

LifeNext ==
  \/ \E app \in MiniApps : AddEventListeners(app)
  \/ \E app \in MiniApps : ClearMiniAppListeners(app)
  \/ \E app \in MiniApps : OnMiniAppFocus(app)
  \/ \E app \in MiniApps : OnMiniAppBlur(app)

\* screens of mini apps gain and lose focus in any order
LifeSpec == Init /\ [][LifeNext]_vars

(* ============================== claims ================================= *)
\* position of kind in the history of first occurrences, 0 when it did not occur
Pos(first, kind) ==
  IF kind \in Range(first) THEN CHOOSE i \in DOMAIN first : first[i] = kind ELSE 0

\* C1: for every enqueue, the new entry is written to the durable store as PENDING
\* with retry counter 0 before a remote write for it is started and before the
\* caller's completion is invoked.
C1_DurableBeforeSend ==
  \A l \in LocalIds :
    \A k \in {"setValue", "completion"} :
      Pos(hist[l].first, k) > 0 =>
        /\ Pos(hist[l].first, "saved") > 0
        /\ Pos(hist[l].first, "saved") < Pos(hist[l].first, k)

C1_Witness ==
  \E l \in LocalIds :
    /\ Len(hist[l].first) >= 3
    /\ SubSeq(hist[l].first, 1, 3) = <<"saved", "setValue", "completion">>

InFlightFor(ws, l) == { w \in ws : w.localId = l }

\* the path of the message built for entry l by sendMessage
OrigPath(l) == <<hist[l].orig.roomId, hist[l].orig.id>>

Stored(st, l) == { d \in st : d.localId = l }

C3_SameKeyEveryAttempt ==
  \A l \in LocalIds :
    /\ hist[l].paths \subseteq {OrigPath(l)}
    /\ \A w \in InFlightFor(inflight, l) : w.path = OrigPath(l)
    /\ hist[l].acks # <<>> => Cardinality(hist[l].paths \cap remote) = 1

\* one entry was acknowledged after a retry, and a retry of an entry loaded after a
\* restart is in flight
C3_Witness ==
  /\ \E l \in LocalIds : hist[l].acks # <<>> /\ hist[l].fails >= 1
  /\ \E w \in inflight : w.data.uid = <<>> /\ hist[w.localId].fails >= 1

\* C4: any two sendMessage calls produce different message identifiers.
C4_UniqueMessageIds ==
  \A l1, l2 \in 1..nextLocal : l1 # l2 => hist[l1].orig.id # hist[l2].orig.id

\* C5: after five consecutive failed attempts an entry is FAILED, still in the queue
\* and in the store, a message_failed event was sent for it, and no step starts a
\* remote write for it until retryFailed resets it.
C5_FailedAfterFive ==
  [][ \A l \in LocalIds :
        /\ hist'[l].fails = 5 =>
             /\ l \in DOMAIN queue' /\ queue'[l].status = "FAILED"
             /\ \E d \in Stored(store', l) : d.status = "FAILED"
             /\ "message_failed" \in Range(hist'[l].first)
        /\ (hist[l].fails = 5 /\ hist'[l].fails = 5) => InFlightFor(inflight', l) = {} ]_vars

C5_Witness ==
  \E l \in DOMAIN queue :
    hist[l].fails = 5 /\ queue[l].status = "FAILED" /\ database /\ queue[l].message.uid = <<>>

\* C6: for five consecutive failures of an entry the retry delays are 1, 2, 4, 8, 16
\* seconds, and after the fifth failure the entry is FAILED.
C6_DelaySequence ==
  \A l \in LocalIds :
    hist[l].fails = 5 =>
      /\ hist[l].delays = <<1, 2, 4, 8, 16>>
      /\ l \in DOMAIN queue /\ queue[l].status = "FAILED"

\* C7: no step starts a remote write for a PENDING entry with retry counter >= 1
\* before the time its retry was scheduled for.
C7_BackoffRespected ==
  [][ \A w \in inflight' \ inflight :
        (/\ w.localId \in DOMAIN queue
         /\ queue[w.localId].status = "PENDING"
         /\ queue[w.localId].retryCount >= 1) => now >= hist[w.localId].dueAt ]_vars

\* a completion block of setValue runs without error in this step
SuccessStep(w) ==
  /\ w \in inflight
  /\ inflight' = inflight \ {w}
  /\ failures' = failures
  /\ database'

\* C8: when a remote write succeeds, the entry is removed from the queue and from the
\* store and exactly one message_ack event, with the entry's localId and the message
\* identifier, has been sent for it.
C8_AckOnSuccess ==
  [][ \A w \in inflight :
        SuccessStep(w) =>
          /\ w.localId \notin DOMAIN queue'
          /\ Stored(store', w.localId) = {}
          /\ hist'[w.localId].acks =
               << [localId |-> w.localId, messageId |-> hist[w.localId].orig.id] >> ]_vars

C8_Witness ==
  \E l \in LocalIds : hist[l].acks # <<>> /\ hist[l].fails = 4 /\ l \notin DOMAIN queue

\* C9: an enqueue followed by a restart before any delivery attempt leaves exactly
\* one entry for the message: PENDING, retry counter 0, same localId and identifier.
C9_RestartAfterEnqueue ==
  \A l \in 1..nextLocal :
    "setValue" \notin Range(hist[l].first) =>
      /\ l \in DOMAIN queue
      /\ queue[l].localId = l
      /\ queue[l].status = "PENDING" /\ queue[l].retryCount = 0
      /\ queue[l].message.id = hist[l].orig.id
      /\ Cardinality(Stored(store, l)) = 1

C9_Witness ==
  \E l \in 1..nextLocal :
    /\ "setValue" \notin Range(hist[l].first)
    /\ l \in DOMAIN queue /\ queue[l].message.uid = <<>>
    /\ ~database

\* entry l was loaded from the store by the running process
Recovered(l) == IF l \in DOMAIN queue THEN queue[l].message.uid = <<>> ELSE FALSE

\* entry l is removed or FAILED
Settled(l) == IF l \in DOMAIN queue THEN queue[l].status = "FAILED" ELSE TRUE

\* C10: once the process stays up after a restart, every entry loaded from the store,
\* also one persisted as SENDING, is eventually removed or FAILED when the remote
\* store answers every write and timers fire.
C10_RecoveredSettles ==
  \A l \in LocalIds :
    []((database /\ []database /\ Recovered(l)) => <>Settled(l))

\* entry l is SENDING and its write has not been answered
Attempting(l) ==
  IF l \in DOMAIN queue
  THEN queue[l].status = "SENDING" /\ InFlightFor(inflight, l) # {}
  ELSE FALSE

NotSending(l) == IF l \in DOMAIN queue THEN queue[l].status # "SENDING" ELSE TRUE

\* C11: an entry whose write the remote store does not answer does not stay SENDING
\* for ever: while the process stays up, the attempt expires and the entry goes back
\* to PENDING or to FAILED.
C11_AttemptExpires ==
  \A l \in LocalIds :
    []((database /\ []database /\ Attempting(l)) => <>NotSending(l))

\* what retryFailed has done to entry l in this step: every FAILED entry is reset,
\* the reset is in the store, and a write for l has been started
RetriedNow(l) ==
  /\ \A k \in DOMAIN queue :
       queue[k].status = "FAILED" =>
         /\ k \in DOMAIN queue' /\ queue'[k].status # "FAILED" /\ queue'[k].retryCount = 0
         /\ \E d \in Stored(store', k) : d.retryCount = 0 /\ d.status = queue'[k].status
  /\ InFlightFor(inflight', l) # {}

\* a FAILED entry stops being FAILED in this step: retryFailed has run
ResetStep(l) ==
  /\ l \in DOMAIN queue /\ queue[l].status = "FAILED"
  /\ l \in DOMAIN queue' /\ queue'[l].status # "FAILED"

\* C12 as stated: retryFailed resets every FAILED entry to retry counter 0, persists
\* that and starts a delivery attempt for each of them within the same call.
C12_RetryFailedAlwaysSends ==
  [][ \A l \in LocalIds : ResetStep(l) => RetriedNow(l) ]_vars

\* C12 amended: the same, when startProcessing has run in this process (the queue
\* holds a database reference).
C12_RetryFailedSendsWhenStarted ==
  [][ \A l \in LocalIds : (database /\ ResetStep(l)) => RetriedNow(l) ]_vars

\* an entry that had exhausted its budget is being sent again with retry counter 0
C12_Witness ==
  \E l \in DOMAIN queue :
    /\ "message_failed" \in Range(hist[l].first)
    /\ queue[l].status = "SENDING" /\ queue[l].retryCount = 0
    /\ InFlightFor(inflight, l) # {}

\* the listeners that subscribed to roomId and have not called their unsubscribe
Subscribed(roomId) ==
  { c \in Listeners : calls[c].state = "subscribed" /\ calls[c].room = roomId }

Unsubscribed(roomId) ==
  { c \in Listeners : calls[c].state = "unsubscribed" /\ calls[c].room = roomId }

\* C13: with two listeners on a room, after one has called its unsubscribe function
\* every event of the room delivered to some listener is delivered to the other, which
\* is still subscribed, and not to the one that unsubscribed.
C13_UnsubscribeIsPerListener ==
  [][ \A r \in Rooms :
        (Unsubscribed(r) # {} /\ Subscribed(r) # {} /\ received' # received) =>
          /\ \A b \in Subscribed(r) : received'[b] = received[b] + 1
          /\ \A a \in Unsubscribed(r) : received'[a] = received[a] ]_vars

ObserversOf(roomId) == { o \in observers : o[1] = roomId }

\* C14: for every room an observer of the remote store is active if and only if at
\* least one listener is subscribed to the room, and there is never more than one.
C14_OneObserverWhileSubscribed ==
  \A r \in Rooms :
    /\ (ObserversOf(r) # {}) <=> (Subscribed(r) # {})
    /\ Cardinality(ObserversOf(r)) <= 1

C16_AddedCarriesLocalId ==
  \A l \in LocalIds :
    \A i \in DOMAIN hist[l].added :
      /\ "localId" \in DOMAIN hist[l].added[i]
      /\ hist[l].added[i].localId = l

\* the rooms of the listeners whose callback is invoked in this step
RoomsHit == { calls[c].room : c \in { x \in Listeners : received'[x] # received[x] } }

\* C17: when an event is delivered, every listener registered for it is invoked, also
\* when the callback of another listener throws.
C17_ThrowDoesNotStopFanOut ==
  [][ \A c \in Range(registered) :
        calls[c].room \in RoomsHit => received'[c] = received[c] + 1 ]_vars

\* C18: enqueue reports success without waiting for the remote write, whether or not
\* the remote store is reachable; when the write of the store fails it reports the
\* failure instead, and the message is not queued and not sent.
C18_EnqueueOutcome ==
  \A l \in 1..nextLocal :
    IF "saveFailed" \in Range(hist[l].first)
    THEN /\ "completion" \notin Range(hist[l].first)
         /\ "setValue" \notin Range(hist[l].first)
         /\ l \notin DOMAIN queue
    ELSE "completion" \in Range(hist[l].first)

\* a listener calls its unsubscribe function in this step
UnsubscribeStep ==
  \E c \in Listeners : calls[c].state = "subscribed" /\ calls'[c].state = "unsubscribed"

OlderThan(before) ==
  IF before = NoCursor THEN snapshot
  ELSE { m \in snapshot : \E c \in snapshot : c.id = before /\ m.timestamp < c.timestamp }

\* C20: getMessages(room, limit, before = c) returns at most limit messages, all
\* strictly older than the message of cursor c, newest first, and they are the newest
\* such messages (five messages 1..5, limit 2: 5,4 and then, from that cursor, 3,2).
C20_PageIsNewestOlder ==
  response.limit > 0 =>
    LET page == response.messages
        older == OlderThan(response.before)
    IN  /\ Len(page) <= response.limit
        /\ Range(page) \subseteq older
        /\ \A i, j \in DOMAIN page : i < j => page[i].timestamp > page[j].timestamp
        /\ Len(page) = Min(response.limit, Cardinality(older))
        /\ \A m \in older \ Range(page) : \A p \in Range(page) : m.timestamp < p.timestamp

\* C21: in every getMessages result hasMore is true iff exactly limit messages were
\* returned, and nextCursor is the identifier of the oldest returned message, absent
\* when no message is returned.
C21_HasMoreAndCursor ==
  response.limit > 0 =>
    LET page == response.messages
    IN  /\ response.hasMore <=> (Len(page) = response.limit)
        /\ page = << >> => response.nextCursor = NoCursor
        /\ page # << >> =>
             \E m \in Range(page) :
               /\ response.nextCursor = m.id
               /\ \A p \in Range(page) : m.timestamp <= p.timestamp

\* a full page of two or more messages has been returned
C21_Witness ==
  /\ response.limit > 1
  /\ Len(response.messages) = response.limit
  /\ response.hasMore

\* C22: the record written to the remote store on every attempt, attempts made after
\* the queue was loaded from the store included, has the sender identifier, sender
\* display name and creation timestamp of the message built at enqueue.
C22_WrittenRecordKeepsSender ==
  \A w \in inflight :
    /\ w.data.uid = hist[w.localId].orig.uid
    /\ w.data.displayName = hist[w.localId].orig.displayName
    /\ w.data.timestamp = hist[w.localId].orig.timestamp

\* the status and retry counter of every entry, in memory and in the store
StatusRetry ==
  { <<queue[l].status, queue[l].retryCount>> : l \in DOMAIN queue }
    \cup { <<d.status, d.retryCount>> : d \in store }

\* C23: in every reachable state an entry is FAILED only if its retry counter has
\* reached 5, and every PENDING or SENDING entry has a retry counter in 0..4.
C23_StatusMatchesRetryCount ==
  \A e \in StatusRetry :
    /\ e[1] = "FAILED" => e[2] = maxRetries
    /\ e[1] \in {"PENDING", "SENDING"} => e[2] \in 0..(maxRetries - 1)

\* one entry is FAILED and another waits for the completion of its write
C23_Witness ==
  \E l1, l2 \in DOMAIN queue :
    /\ queue[l1].status = "FAILED" /\ queue[l1].retryCount = maxRetries
    /\ queue[l2].status = "SENDING"

\* C24: a subscribed room listener never receives two message_added events for the
\* same message identifier: the optimistic copy and the copy of the remote store, or
\* a repeated write, are never both visible.  Stated for the runs in which distinct
\* messages have distinct identifiers, so that two events with one identifier are two
\* copies of one message.
C24_NoDuplicateMessageAdded ==
  (\A l1, l2 \in 1..nextLocal : l1 # l2 => hist[l1].orig.id # hist[l2].orig.id) =>
    \A c \in Listeners :
      \A ev \in DOMAIN delivered[c] : ev.type = "message_added" => delivered[c][ev] <= 1

\* C25: a callback subscribed to room X is invoked only with events that concern
\* room X: it never receives a message_ack or message_failed event of a message of
\* another room.
C25_EventsOfOwnRoomOnly ==
  \A c \in Listeners :
    \A ev \in DOMAIN delivered[c] :
      /\ ev.type = "message_added" => ev.roomId = calls[c].room
      /\ ev.type \in {"message_ack", "message_failed"} =>
           hist[ev.localId].orig.roomId = calls[c].room

\* C26: within one drain pass, the eligible entries are attempted in ascending order
\* of creation time, the oldest first.
\* Stated of the pass startProcessing runs from the current state, for every order
\* in which queue.values can yield the entries.
C26_DrainOldestFirst ==
  \A order \in Perms(pendingMessages(queue)) :
    LET sent == processQueue(Cur, order, TRUE, bridgeListeners).sent
    IN  \A i, j \in DOMAIN sent :
          i < j => queue[sent[i]].createdAt <= queue[sent[j]].createdAt

\* C27: no entry with status SENT ever exists in the in-memory queue or in the
\* durable store; a confirmed message is represented only by the absence of its entry.
C27_NoSentEntries ==
  /\ \A l \in DOMAIN queue : queue[l].status # "SENT"
  /\ \A d \in store : d.status # "SENT"
  /\ \A l \in LocalIds :
       hist[l].acks # << >> => l \notin DOMAIN queue /\ Stored(store, l) = {}

\* one message was confirmed while another entry stays in the queue and in the store
C27_Witness ==
  \E l1, l2 \in LocalIds :
    /\ hist[l1].acks # << >> /\ l1 \notin DOMAIN queue
    /\ l2 \in DOMAIN queue /\ Stored(store, l2) # {}

\* C28: starting from getMessages(room, limit) and calling it again with before = the
\* previous nextCursor while hasMore is true, for every limit >= 1 and every set of
\* messages with distinct timestamps, the traversal terminates and returns every
\* message of the room exactly once.
C28_TraversalReturnsEachOnce ==
  /\ NoRepeat(pages)
  /\ (response.limit > 0 /\ ~response.hasMore) => Range(pages) = snapshot

\* C29: message_failed is emitted at most once for an entry per exhaustion of its
\* retry budget: drains that run while the entry is already FAILED do not emit it
\* again until retryFailed has reset the entry.
C29_FailedEmittedOnce ==
  \A l \in LocalIds : hist[l].failedSent <= 1

\* what the store and the queue hold of an entry: localId, message identifier, status
\* and retry counter
Held(localId, messageId, status, retryCount) ==
  <<localId, messageId, status, retryCount>>

\* C30: after each queue operation (enqueue, a status change of a drain, send
\* success, send failure, retryFailed) the durable store holds exactly the entries
\* in memory, with the same localId, message identifier, status and retry counter,
\* so a restart at that point reconstructs the same set of entries.
C30_StoreEqualsMemory ==
  LET inMemory == { Held(l, queue[l].message.id, queue[l].status, queue[l].retryCount) :
                      l \in DOMAIN queue }
      inStore == { Held(d.localId, d.messageId, d.status, d.retryCount) : d \in store }
      loaded == loadQueue(store, now)
  IN  /\ inStore = inMemory
      /\ Cardinality(store) = Cardinality(DOMAIN queue)
      /\ { Held(l, loaded[l].message.id, loaded[l].status, loaded[l].retryCount) :
              l \in DOMAIN loaded } = inMemory

\* an entry waits for a retry while the write of another is in flight
C30_Witness ==
  \E l1, l2 \in DOMAIN queue :
    /\ queue[l1].status = "PENDING" /\ queue[l1].retryCount >= 1
    /\ queue[l2].status = "SENDING"
    /\ Cardinality(store) = 2

\* some call of init has resolved
InitSucceeded == \E i \in DOMAIN initCalls : initCalls[i].state = "fulfilled"

\* C31: every operation other than init fails with a not-initialized error and makes
\* no native call unless some earlier init call has resolved successfully; an init
\* call that rejects leaves the SDK uninitialized.
C31_NotInitializedUntilInitResolves ==
  ~InitSucceeded =>
    /\ nativeCalls = {}
    /\ lastOp # NoOp => lastOp.result = "not-initialized"
    /\ ~initialized

\* an operation has failed after one init call was rejected and while the native
\* initialize of another has resolved and init has not yet returned
C31_Witness ==
  /\ ~InitSucceeded
  /\ \E i \in DOMAIN initCalls : initCalls[i].state = "failed"
  /\ \E i \in DOMAIN initCalls : initCalls[i].state = "resolved"
  /\ lastOp.result = "not-initialized"

\* C32: after stop() returns, no token refresh is performed, no refresh timer is armed
\* and neither onTokenRefreshed nor onRefreshFailed is invoked until start() is called
\* again, whatever storage read or refresh was in progress when stop() was called.
C32_StopStopsEverything ==
  stopped =>
    /\ afterStop = {}
    /\ \A c \in DOMAIN chains : chains[c] # "timer"

\* C33: for each mini app 'focus' and 'blur' notifications alternate: after any
\* sequence of onMiniAppFocus and onMiniAppBlur calls its listeners never receive two
\* 'blur' events without a 'focus' event in between.
C33_NoTwoBlursInARow ==
  \A app \in MiniApps : notified[app] # <<"blur", "blur">>

====
